---- MODULE Spec2Model ----
(***************************************************************************)
(* balancebeam (proj-2/balancebeam/src/main.rs): a load-balancing reverse  *)
(* proxy with passive failover, active health checks and a per-IP rate     *)
(* limiter.  The model follows the tasks main() spawns: one handler per    *)
(* accepted connection, the active health checker and the rate-limit       *)
(* refresher, sharing ProxyState through two tokio mutexes.                *)
(*                                                                         *)
(* Upstream indices are 0-based as in the source.  The tasks share state   *)
(* only under the two mutexes, so the code of a task between two of its    *)
(* lock or network operations is one step; the other tasks run between     *)
(* the steps, also between a selection and the connect that follows it.    *)
(*                                                                         *)
(* The module also holds the three small programs of the repository that  *)
(* stand beside the proxy: the farm worker pool (week5/farm), parallel_map *)
(* (week6/parallel_map) and the command loop of the deet debugger          *)
(* (proj-1/deet).  Each has its own variables and specifications; the     *)
(* variables of the programs a specification is not about stay as they     *)
(* start.                                                                  *)
(***************************************************************************)
EXTENDS Integers, Sequences, FiniteSets, TLC

\* ---- bounds of the model -------------------------------------------------
MaxUpstreams == 2       \* upstreams given on the command line
MaxClients == 2         \* distinct client IP addresses
MaxLimit == 2           \* largest --max-requests-per-minute tried
MaxConns == 2           \* connections accepted in a rate-limiting run
MaxReqs == 3            \* requests sent by the clients in a rate-limiting run
FewConns == 1           \* connections accepted in a run about upstream health
MaxEnvChanges == 1      \* times an upstream server changes its behaviour
MaxWorkers == 2         \* worker threads of farm and of parallel_map
MaxNums == 3            \* numbers given to farm
MaxInput == 2           \* length of the vector given to parallel_map
MaxCommands == 3        \* commands typed into the debugger

\* ---- task identities and lock owners ------------------------------------
Free == 0
HealthTask == 0 - 1
Conns == 1..(IF MaxConns > FewConns THEN MaxConns ELSE FewConns)
\* no run has more upstreams than this (the failover runs have three)
MaxIndex == IF MaxUpstreams > 3 THEN MaxUpstreams ELSE 3
Clients == 1..MaxClients
NoUpstream == 0 - 1
\* the process has not exited / std::process::exit(1)
NoExit == 0 - 1
ExitFailure == 1

\* ---- HTTP status codes used by the proxy --------------------------------
OK == 200
BAD_REQUEST == 400
PAYLOAD_TOO_LARGE == 413
TOO_MANY_REQUESTS == 429
BAD_GATEWAY == 502
SERVICE_UNAVAILABLE == 503
\* the response an upstream produced for a relayed request, forwarded verbatim
UpstreamResponse(idx) == 1000 + idx

\* ---- what an upstream server does when contacted -------------------------
\* "refuse": TcpStream::connect fails; "wfail"/"rfail": the connection opens
\* but the probe's write / read fails; "non200": answers the probe with a
\* status other than 200; "ok": answers the probe with 200.
ServerStates == {"refuse", "wfail", "rfail", "non200", "ok"}
Unprobed == "unprobed"

VARIABLES
    main_pc,                  \* main(): "parse", "bind", "accept" or "exited"
    exit_code,                \* status the process exited with
    bind_ok,                  \* whether TcpListener::bind can succeed
    upstream_addresses,       \* ProxyState.upstream_addresses
    max_requests_per_minute,  \* ProxyState.max_requests_per_minute
    upstream_status,          \* ProxyState.upstream_status (under status_lock)
    rate_limit_counter,       \* ProxyState.rate_limit_counter (under rate_lock)
    status_lock,              \* owner of the upstream_status mutex
    rate_lock,                \* owner of the rate_limit_counter mutex
    server,                   \* behaviour of each upstream server
    env_changes,              \* changes of server behaviour so far
    client_conns,             \* connections the clients open in this run
    client_reqs,              \* requests the clients send in this run, over all connections
    pc,                       \* position of each connection handler
    verdict,                  \* result of check_rate_limit_counter for the connection
    client_ip,                \* peer address of each connection
    upstream_idx,             \* index returned by the last selection
    upstream_conn,            \* upstream the handler is connected to
    requests,                 \* read_from_stream calls answered by the clients so far
    sent,                     \* last response handed to send_response (0: none yet);
                              \* a failed write to the client is only logged
    tried,                    \* upstreams this handler tried to connect to
    inflight,                 \* history: requests written upstream and not yet answered
    checker_pc,               \* active_health_check: "sleep" or "sweep"
    checker_idx,              \* loop variable of the sweep
    refresher_pc,             \* refresh_rate_limit_counter position
    verdicts,                 \* history: rate checks per IP since the last clear
    relayed,                  \* history: requests relayed per IP since the last clear
    sweep_seen,               \* history: probe outcomes of the running sweep
    last_sweep,               \* history: probe outcomes of the last finished sweep
    swept,                    \* history: the vector the last finished sweep left
    avoid,                    \* history: upstreams the sweep before the acceptance found non-200
    \* farm
    num_threads,              \* main: num_cpus::get()
    nums,                     \* the queue Arc<Mutex<VecDeque<u32>>>
    threads,                  \* main: join handles pushed so far
    joined,                   \* main: handles joined so far
    farm_main,                \* main: "spawn", "join" or "done"
    worker_pc,                \* worker_thread: "unspawned", "pop", "factor" or "done"
    num,                      \* worker_thread: the number popped
    popped,                   \* history: position in the input of the number popped
    farm_input,               \* history: the queue get_input_numbers returned
    factored,                 \* history: calls of factor_number per input position
    \* parallel_map
    pm_num_threads,           \* the parameter num_threads
    pm_input,                 \* history: input_vec as it was passed
    input_vec,                \* what is left of input_vec
    output_vec,               \* output_vec, indexed from 0
    pm_i,                     \* main: the loop variable i of the sending loop
    channel,                  \* pairs sent on sender, not yet received
    out_channel,              \* pairs sent on out_sender, not yet received
    sender,                   \* TRUE until main drops sender
    out_sender,               \* number of live handles of out_sender
    pm_threads,               \* main: join handles pushed so far
    pm_joined,                \* main: handles joined so far
    pm_main,                  \* main: "spawn", "send", "drop_sender", "drop_out_sender",
                              \* "collect", "join" or "done"
    pm_pc,                    \* worker: "unspawned", "recv", "send" or "exited"
    pair,                     \* worker: the pair it received
    applied,                  \* history: calls of f per index
    \* deet
    inferior,                 \* Debugger.inferior: "None" or "Some"
    child,                    \* the process behind it: "none", "stopped", "exited",
                              \* "signaled" or "killed"
    breakpoints,              \* Debugger.breakpoints: the addresses
    dbg_pc,                   \* Debugger::run: "prompt", "returned" or "panicked"
    commands,                 \* commands read so far
    output                    \* the last line printed

mainvars == <<main_pc, exit_code>>
cfgvars == <<upstream_addresses, max_requests_per_minute>>
envvars == <<bind_ok, server, env_changes, client_conns, client_reqs>>
ratevars == <<rate_limit_counter, rate_lock, verdicts>>
statusvars == <<upstream_status, status_lock>>
connvars == <<pc, verdict, client_ip, upstream_idx, upstream_conn, requests, sent, tried,
              inflight>>
checkvars == <<checker_pc, checker_idx, sweep_seen, last_sweep, swept>>
histvars == <<relayed, avoid>>
proxyvars == <<mainvars, cfgvars, envvars, ratevars, statusvars, connvars, checkvars,
               refresher_pc, histvars>>
farmvars == <<num_threads, nums, threads, joined, farm_main, worker_pc, num, popped,
              farm_input, factored>>
pmapvars == <<pm_num_threads, pm_input, input_vec, output_vec, pm_i, channel, out_channel,
              sender, out_sender, pm_threads, pm_joined, pm_main, pm_pc, pair, applied>>
deetvars == <<inferior, child, breakpoints, dbg_pc, commands, output>>
othervars == <<farmvars, pmapvars, deetvars>>
vars == <<proxyvars, othervars>>

\* ---- helpers --------------------------------------------------------------
EmptyMap == [x \in {} |-> 0]
Upstreams == DOMAIN upstream_addresses
VecLen(v) == Cardinality(DOMAIN v)
NoSweep == [i \in Upstreams |-> Unprobed]
\* the upstreams a sweep saw answer with a status other than 200 while at
\* least one other upstream answered 200
Non200In(sweep) ==
    {a \in DOMAIN sweep :
        sweep[a] = "non200" /\ \E b \in DOMAIN sweep : b # a /\ sweep[b] = "ok"}

\* ---- pure parts of the code -----------------------------------------------
\* rate_limit_counter.entry(ip).or_insert(0); *count += 1
CountAfter(counter, ip) ==
    IF ip \in DOMAIN counter THEN counter[ip] + 1 ELSE 0 + 1

IncrementShared(counter, ip) ==
    [x \in (DOMAIN counter) \cup {ip} |-> CountAfter(counter, x)]
Increment(counter, ip) ==
    [x \in (DOMAIN counter) \cup {ip} |->
        IF x = ip THEN CountAfter(counter, ip) ELSE counter[x]]

\* if *count > state.max_requests_per_minute
RejectsOffByOne(count, max) == count >= max
Rejects(count, max) == count > max

\* handle_connection: `if !check_rate_limit_counter(..).await { return; }`
AfterRateCheckIgnored(allowed) == "choose"
AfterRateCheck(allowed) == IF allowed THEN "choose" ELSE "closed"

\* mutex.lock().await grants the guard to the task
LockSkipped(task) == Free
Lock(task) == task

\* a MutexGuard goes out of scope
DropLeaked(guard) == guard
Drop(guard) == Free

\* upstream_status[upstream_idx] = value
SetStatusOnlyDemoted(status, idx, value) ==
    [status EXCEPT ![idx] = @ /\ value]
SetStatusInverted(status, idx, value) == [status EXCEPT ![idx] = ~value]
SetStatusKept(status, idx, value) == status
SetStatusPushed(status, idx, value) ==
    [i \in (DOMAIN status) \cup {VecLen(status)} |->
        IF i = idx \/ i \notin DOMAIN status THEN value ELSE status[i]]
SetStatus(status, idx, value) == [status EXCEPT ![idx] = value]

\* if upstream_status[upstream_idx] { return Some(upstream_idx); }
HealthyAny(status, idx) == TRUE
Healthy(status, idx) == status[idx]

\* connect_to_upstream after it marked the upstream dead: `continue`, which
\* selects again
AfterMarkDeadRetries == "connect"
AfterMarkDead == "choose"

\* TcpStream::connect(upstream_ip) succeeds unless the server refuses
Connects(state) == state # "refuse"

\* check_server: true iff connected, written, read back and status == 200
CheckServerAnyStatus(state) == state \in {"non200", "ok"}
CheckServerConnected(state) == state # "refuse"
CheckServerInverted(state) == state # "ok"
CheckServer(state) == state = "ok"

\* the Error -> StatusCode match of handle_connection's relay loop
ParseErrors == {"IncompleteRequest", "MalformedRequest", "InvalidContentLength",
                "ContentLengthMismatch", "RequestBodyTooLarge"}
ReadOutcomes == {"Ok", "IncompleteRequest0", "ConnectionError"} \cup ParseErrors
ErrorStatus(error) ==
    CASE error \in {"IncompleteRequest", "MalformedRequest",
                    "InvalidContentLength", "ContentLengthMismatch"} -> BAD_REQUEST
      [] error = "RequestBodyTooLarge" -> PAYLOAD_TOO_LARGE
      [] error = "ConnectionError" -> SERVICE_UNAVAILABLE

\* ---- the programs beside the proxy, not started ---------------------------
Workers == 1..MaxWorkers

FarmIdle ==
    /\ num_threads = 0
    /\ nums = <<>>
    /\ threads = 0
    /\ joined = 0
    /\ farm_main = "done"
    /\ worker_pc = [w \in Workers |-> "unspawned"]
    /\ num = [w \in Workers |-> 0]
    /\ popped = [w \in Workers |-> 0]
    /\ farm_input = <<>>
    /\ factored = <<>>

PmapIdle ==
    /\ pm_num_threads = 0
    /\ pm_input = <<>>
    /\ input_vec = <<>>
    /\ output_vec = <<>>
    /\ pm_i = 0
    /\ channel = <<>>
    /\ out_channel = <<>>
    /\ sender = FALSE
    /\ out_sender = 0
    /\ pm_threads = 0
    /\ pm_joined = 0
    /\ pm_main = "done"
    /\ pm_pc = [w \in Workers |-> "unspawned"]
    /\ pair = [w \in Workers |-> <<0, 0>>]
    /\ applied = <<>>

DeetIdle ==
    /\ inferior = "None"
    /\ child = "none"
    /\ breakpoints = {}
    /\ dbg_pc = "returned"
    /\ commands = 0
    /\ output = "none"

OthersIdle ==
    /\ FarmIdle
    /\ PmapIdle
    /\ DeetIdle

\* ---- initial states -------------------------------------------------------
\* main() has bound the listener: ProxyState with every upstream marked
\* healthy and an empty counter map, the health checker spawned, and the
\* refresher spawned only when max_requests_per_minute > 0.
InitWith(n, max, servers, budgetUsed, conns, reqs) ==
    /\ main_pc = "accept"
    /\ exit_code = NoExit
    /\ bind_ok = TRUE
    /\ upstream_addresses = [i \in 0..(n - 1) |-> i]
    /\ max_requests_per_minute = max
    /\ upstream_status = [i \in 0..(n - 1) |-> TRUE]
    /\ rate_limit_counter = EmptyMap
    /\ status_lock = Free
    /\ rate_lock = Free
    /\ server = servers
    /\ env_changes = budgetUsed
    /\ client_conns = conns
    /\ client_reqs = reqs
    /\ pc = [c \in Conns |-> "idle"]
    /\ verdict = [c \in Conns |-> "pending"]
    /\ client_ip = [c \in Conns |-> 0]
    /\ upstream_idx = [c \in Conns |-> NoUpstream]
    /\ upstream_conn = [c \in Conns |-> NoUpstream]
    /\ requests = 0
    /\ sent = [c \in Conns |-> 0]
    /\ tried = [c \in Conns |-> {}]
    /\ inflight = [c \in Conns |-> 0]
    /\ checker_pc = "sleep"
    /\ checker_idx = 0
    /\ refresher_pc = IF max > 0 THEN "sleep" ELSE "unspawned"
    /\ verdicts = [ip \in Clients |-> <<>>]
    /\ relayed = [ip \in Clients |-> 0]
    /\ sweep_seen = [i \in 0..(n - 1) |-> Unprobed]
    /\ last_sweep = [i \in 0..(n - 1) |-> Unprobed]
    /\ swept = [i \in 0..(n - 1) |-> TRUE]
    /\ avoid = [c \in Conns |-> {}]

\* every kind of run at once: any upstreams, which may change their behaviour,
\* several connections and requests
Init ==
    /\ OthersIdle
    /\ \E n \in 1..MaxUpstreams, max \in 0..MaxLimit :
           \E servers \in [0..(n - 1) -> ServerStates] :
               InitWith(n, max, servers, 0, MaxConns, MaxReqs)

\* rate limiting: one upstream that is up or down for the whole run, several
\* connections and a single request
InitRate ==
    /\ OthersIdle
    /\ \E max \in 0..MaxLimit, s \in {"refuse", "ok"} :
           InitWith(1, max, [i \in 0..0 |-> s], MaxEnvChanges, MaxConns, 1)

\* relaying: two upstreams [A, B], each up or down for the whole run, and
\* clients that send several requests
InitRelay ==
    /\ OthersIdle
    /\ \E max \in {0, MaxLimit} :
           \E servers \in [0..1 -> {"refuse", "ok"}] :
               InitWith(2, max, servers, MaxEnvChanges, FewConns, MaxReqs)

\* health checking: two upstreams that change their behaviour while clients
\* connect and wait (no request is sent)
InitHealth ==
    /\ OthersIdle
    /\ \E max \in {0, MaxLimit} :
           \E servers \in [0..1 -> ServerStates] :
               InitWith(2, max, servers, 0, FewConns, 0)

\* failover: three upstreams, all marked healthy at startup, of which
\* upstream 0 and 1 refuse connections and upstream 2 serves
InitFailover ==
    /\ OthersIdle
    /\ \E max \in {0, MaxLimit} :
           InitWith(3, max, [i \in 0..2 |-> IF i = 2 THEN "ok" ELSE "refuse"],
                    MaxEnvChanges, FewConns, 0)

\* total failure: every upstream refuses connections for the whole run
InitAllDown ==
    /\ OthersIdle
    /\ \E n \in 1..MaxUpstreams, max \in {0, MaxLimit} :
           InitWith(n, max, [i \in 0..(n - 1) |-> "refuse"],
                    MaxEnvChanges, FewConns, 0)

\* startup: the options are parsed and nothing is bound or spawned yet; no,
\* one or more upstreams are given, all up or all down, and the bind address
\* is free or taken
InitStartup ==
    /\ OthersIdle
    /\ \E n \in 0..MaxUpstreams, max \in {0, MaxLimit}, s \in {"refuse", "ok"} :
           /\ main_pc = "parse"
           /\ exit_code = NoExit
           /\ bind_ok \in BOOLEAN
           /\ upstream_addresses = [i \in 0..(n - 1) |-> i]
           /\ max_requests_per_minute = max
           /\ upstream_status = [i \in {} |-> TRUE]
           /\ rate_limit_counter = EmptyMap
           /\ status_lock = Free
           /\ rate_lock = Free
           /\ server = [i \in 0..(n - 1) |-> s]
           /\ env_changes = MaxEnvChanges
           /\ client_conns = FewConns
           /\ client_reqs = 0
           /\ pc = [c \in Conns |-> "idle"]
           /\ verdict = [c \in Conns |-> "pending"]
           /\ client_ip = [c \in Conns |-> 0]
           /\ upstream_idx = [c \in Conns |-> NoUpstream]
           /\ upstream_conn = [c \in Conns |-> NoUpstream]
           /\ requests = 0
           /\ sent = [c \in Conns |-> 0]
           /\ tried = [c \in Conns |-> {}]
           /\ inflight = [c \in Conns |-> 0]
           /\ checker_pc = "unspawned"
           /\ checker_idx = 0
           /\ refresher_pc = "unspawned"
           /\ verdicts = [ip \in Clients |-> <<>>]
           /\ relayed = [ip \in Clients |-> 0]
           /\ sweep_seen = [i \in 0..(n - 1) |-> Unprobed]
           /\ last_sweep = [i \in 0..(n - 1) |-> Unprobed]
           /\ swept = [i \in 0..(n - 1) |-> TRUE]
           /\ avoid = [c \in Conns |-> {}]

\* ---- main(): startup ---------------------------------------------------------
\* if options.upstream.len() < 1
NoUpstreamGivenIgnored(upstream) == VecLen(upstream) < 0
NoUpstreamGiven(upstream) == VecLen(upstream) < 1

\* CmdOptions::parse() and the check of the upstreams: exit(1), or go on to
\* TcpListener::bind
CheckOptions ==
    /\ main_pc = "parse"
    /\ IF NoUpstreamGiven(upstream_addresses)
          THEN /\ main_pc' = "exited"
               /\ exit_code' = ExitFailure
          ELSE /\ main_pc' = "bind"
               /\ UNCHANGED exit_code
    /\ UNCHANGED <<othervars, cfgvars, envvars, ratevars, statusvars, connvars, checkvars,
                   refresher_pc, histvars>>

\* TcpListener::bind(..).await: exit(1) on Err; on Ok the ProxyState is built
\* with every upstream healthy, the health checker and (for max > 0) the
\* refresher are spawned and main() waits for connections
Bind ==
    /\ main_pc = "bind"
    /\ IF bind_ok
          THEN /\ main_pc' = "accept"
               /\ upstream_status' = [i \in DOMAIN upstream_addresses |-> TRUE]
               /\ checker_pc' = "sleep"
               /\ refresher_pc' =
                     IF max_requests_per_minute > 0 THEN "sleep" ELSE "unspawned"
               /\ UNCHANGED exit_code
          ELSE /\ main_pc' = "exited"
               /\ exit_code' = ExitFailure
               /\ UNCHANGED <<upstream_status, checker_pc, refresher_pc>>
    /\ UNCHANGED <<othervars, cfgvars, envvars, ratevars, status_lock, connvars, checker_idx,
                   sweep_seen, last_sweep, swept, histvars>>

\* ---- the listener ------------------------------------------------------------
\* main(): incoming.next() yields a stream and handle_connection is spawned.
\* Connections are numbered in the order of their acceptance and client
\* addresses in the order of their first appearance.
Accept(c, ip) ==
    /\ main_pc = "accept"
    /\ pc[c] = "idle"
    /\ c <= client_conns
    /\ \A d \in Conns : d < c => pc[d] # "idle"
    /\ ip <= 1 + Cardinality({client_ip[d] : d \in {e \in Conns : e < c}})
    /\ pc' = [pc EXCEPT ![c] = "check_rate"]
    /\ client_ip' = [client_ip EXCEPT ![c] = ip]
    /\ avoid' = [avoid EXCEPT ![c] =
            IF checker_pc = "sleep" THEN Non200In(last_sweep) ELSE {}]
    /\ UNCHANGED <<othervars, mainvars, cfgvars, envvars, ratevars, statusvars, verdict, upstream_idx,
                   upstream_conn, requests, sent, tried, inflight, checkvars, refresher_pc,
                   relayed>>

\* ---- check_rate_limit_counter ---------------------------------------------
\* lock, count the connection, compare; an allowed connection drops the guard
\* on return, a rejected one keeps it across send_response
CheckRate(c) ==
    /\ pc[c] = "check_rate"
    /\ rate_lock = Free
    /\ LET count == CountAfter(rate_limit_counter, client_ip[c])
           reject == Rejects(count, max_requests_per_minute)
       IN /\ rate_limit_counter' = Increment(rate_limit_counter, client_ip[c])
          /\ verdicts' = [verdicts EXCEPT ![client_ip[c]] =
                Append(@, IF reject THEN "Rejected" ELSE "Allowed")]
          /\ verdict' = [verdict EXCEPT ![c] =
                IF reject THEN "Rejected" ELSE "Allowed"]
          /\ IF reject
                THEN /\ rate_lock' = Lock(c)
                     /\ pc' = [pc EXCEPT ![c] = "send_429"]
                ELSE /\ rate_lock' = Free
                     /\ pc' = [pc EXCEPT ![c] = AfterRateCheck(TRUE)]
    /\ UNCHANGED <<othervars, mainvars, cfgvars, envvars, statusvars, client_ip, upstream_idx,
                   upstream_conn, requests, sent, tried, inflight, checkvars, refresher_pc,
                   histvars>>

\* send_response(429) under the rate lock, `return false`, and the handler
\* acts on the result
Send429(c) ==
    /\ pc[c] = "send_429"
    /\ sent' = [sent EXCEPT ![c] = TOO_MANY_REQUESTS]
    /\ rate_lock' = Drop(rate_lock)
    /\ pc' = [pc EXCEPT ![c] = AfterRateCheck(FALSE)]
    /\ UNCHANGED <<othervars, mainvars, cfgvars, envvars, rate_limit_counter, verdicts, statusvars,
                   verdict, client_ip, upstream_idx, upstream_conn, requests, tried, inflight,
                   checkvars, refresher_pc, histvars>>

\* ---- choose_health_upstream_randomly / connect_to_upstream ----------------
\* One iteration of the selection loop: lock, draw an index over the whole
\* range, return it if it is marked healthy, otherwise drop the guard and
\* loop.  The function has no `return None`: with every flag false it draws
\* again forever, so connect_to_upstream's Err branch and the handler's 502 on
\* a failed connect_to_upstream are never taken.
ChooseIdx(c, idx) ==
    /\ pc[c] = "choose"
    /\ status_lock = Free
    /\ idx \in 0..(VecLen(upstream_status) - 1)
    /\ IF Healthy(upstream_status, idx)
          THEN /\ upstream_idx' = [upstream_idx EXCEPT ![c] = idx]
               /\ pc' = [pc EXCEPT ![c] = "connect"]
               /\ UNCHANGED <<othervars, mainvars, cfgvars, envvars, ratevars, statusvars, verdict,
                              client_ip, upstream_conn, requests, sent, tried, inflight,
                              checkvars, refresher_pc, histvars>>
          ELSE UNCHANGED vars

\* rng.gen_range(0, upstream_status.len())
Choose(c) == \E idx \in 0..(MaxIndex - 1) : ChooseIdx(c, idx)

\* TcpStream::connect(&upstream_addresses[upstream_idx]): Ok returns the
\* stream to handle_connection, Err goes on to mark the upstream dead
Connect(c) ==
    /\ pc[c] = "connect"
    /\ tried' = [tried EXCEPT ![c] = @ \cup {upstream_idx[c]}]
    /\ IF Connects(server[upstream_idx[c]])
          THEN /\ upstream_conn' = [upstream_conn EXCEPT ![c] = upstream_idx[c]]
               /\ pc' = [pc EXCEPT ![c] = "read_request"]
          ELSE /\ pc' = [pc EXCEPT ![c] = "mark_dead"]
               /\ UNCHANGED upstream_conn
    /\ UNCHANGED <<othervars, mainvars, cfgvars, envvars, ratevars, statusvars, verdict, client_ip,
                   upstream_idx, requests, sent, inflight, checkvars, refresher_pc,
                   histvars>>

\* upstream_status.lock().await; upstream_status[upstream_idx] = false; continue
MarkDead(c) ==
    /\ pc[c] = "mark_dead"
    /\ status_lock = Free
    /\ upstream_status' = SetStatus(upstream_status, upstream_idx[c], FALSE)
    /\ pc' = [pc EXCEPT ![c] = AfterMarkDead]
    /\ UNCHANGED <<othervars, mainvars, cfgvars, envvars, ratevars, status_lock, verdict, client_ip,
                   upstream_idx, upstream_conn, requests, sent, tried, inflight, checkvars,
                   refresher_pc, histvars>>

\* ---- the relay loop of handle_connection ----------------------------------
\* the match on the result of request::read_from_stream: a request goes on to
\* the upstream, end of stream and an I/O error `return`, a parse error
\* `continue`s after its error response
AfterReadCloses(outcome) ==
    IF outcome = "Ok" THEN "write_upstream" ELSE "closed"
AfterReadAnswersIOError(outcome) ==
    CASE outcome = "Ok" -> "write_upstream"
      [] outcome = "IncompleteRequest0" -> "closed"
      [] OTHER -> "read_request"
AfterReadReconnects(outcome) ==
    CASE outcome = "Ok" -> "write_upstream"
      [] outcome \in {"IncompleteRequest0", "ConnectionError"} -> "closed"
      [] OTHER -> "choose"
AfterRead(outcome) ==
    CASE outcome = "Ok" -> "write_upstream"
      [] outcome \in {"IncompleteRequest0", "ConnectionError"} -> "closed"
      [] OTHER -> "read_request"

\* request::write_to_stream / response::read_from_stream on the upstream
\* connection: on Err a 502 and `return`
AfterUpstreamIORetries(ok, next) == IF ok THEN next ELSE "choose"
AfterUpstreamIOPipelined(ok, next) == IF ok THEN "read_request" ELSE "closed"
AfterUpstreamIO(ok, next) == IF ok THEN next ELSE "closed"

\* request::read_from_stream(&mut client_conn) returned `outcome`
ReadResult(c, outcome) ==
    /\ pc[c] = "read_request"
    /\ requests < client_reqs
    /\ requests' = requests + 1
    /\ pc' = [pc EXCEPT ![c] = AfterRead(outcome)]
    /\ sent' = IF outcome \in ParseErrors
                  THEN [sent EXCEPT ![c] = ErrorStatus(outcome)]
                  ELSE sent
    /\ UNCHANGED <<othervars, mainvars, cfgvars, envvars, ratevars, statusvars, verdict, client_ip,
                   upstream_idx, upstream_conn, tried, inflight, checkvars,
                   refresher_pc, histvars>>

ReadRequest(c) == \E outcome \in ReadOutcomes : ReadResult(c, outcome)

\* request::write_to_stream(&request, &mut upstream_conn) returned Ok or Err
WriteResult(c, ok) ==
    /\ pc[c] = "write_upstream"
    /\ pc' = [pc EXCEPT ![c] = AfterUpstreamIO(ok, "read_response")]
    /\ IF ok
          THEN /\ inflight' = [inflight EXCEPT ![c] = @ + 1]
               /\ UNCHANGED sent
          ELSE /\ sent' = [sent EXCEPT ![c] = BAD_GATEWAY]
               /\ UNCHANGED inflight
    /\ UNCHANGED <<othervars, mainvars, cfgvars, envvars, ratevars, statusvars, verdict, client_ip,
                   upstream_idx, upstream_conn, requests, tried, checkvars,
                   refresher_pc, histvars>>

WriteUpstream(c) == \E ok \in BOOLEAN : WriteResult(c, ok)

\* response::read_from_stream(&mut upstream_conn, ..) returned Ok or Err: the
\* response is forwarded to the client and the loop goes on, or a 502 is sent
ResponseResult(c, ok) ==
    /\ pc[c] = "read_response"
    /\ pc' = [pc EXCEPT ![c] = AfterUpstreamIO(ok, "read_request")]
    /\ IF ok
          THEN /\ sent' = [sent EXCEPT ![c] = UpstreamResponse(upstream_conn[c])]
               /\ relayed' = [relayed EXCEPT ![client_ip[c]] = @ + 1]
               /\ inflight' = [inflight EXCEPT ![c] = @ - 1]
          ELSE /\ sent' = [sent EXCEPT ![c] = BAD_GATEWAY]
               /\ UNCHANGED <<relayed, inflight>>
    /\ UNCHANGED <<othervars, mainvars, cfgvars, envvars, ratevars, statusvars, verdict, client_ip,
                   upstream_idx, upstream_conn, requests, tried, checkvars,
                   refresher_pc, avoid>>

ReadResponse(c) == \E ok \in BOOLEAN : ResponseResult(c, ok)

\* ---- active_health_check ----------------------------------------------------
\* delay_for(interval) has elapsed and upstream_status.lock() is granted; the
\* guard is held until the end of the loop body
StartSweep ==
    /\ checker_pc = "sleep"
    /\ status_lock = Free
    /\ status_lock' = Lock(HealthTask)
    /\ checker_pc' = "sweep"
    /\ checker_idx' = 0
    /\ sweep_seen' = NoSweep
    /\ UNCHANGED <<othervars, mainvars, cfgvars, envvars, ratevars, upstream_status, connvars,
                   last_sweep, swept, refresher_pc, histvars>>

\* one iteration of `for upstream_idx in 0..upstream_status.len()`: the probe
\* and the write of its result; after the last one the guard is dropped
Probe ==
    /\ checker_pc = "sweep"
    /\ LET idx == checker_idx
           seen == [sweep_seen EXCEPT ![idx] = server[idx]]
       IN /\ upstream_status' =
                SetStatus(upstream_status, idx, CheckServer(server[idx]))
          /\ IF idx + 1 < VecLen(upstream_status)
                THEN /\ checker_idx' = idx + 1
                     /\ sweep_seen' = seen
                     /\ UNCHANGED <<checker_pc, status_lock, last_sweep, swept>>
                ELSE /\ checker_pc' = "sleep"
                     /\ checker_idx' = 0
                     /\ status_lock' = Drop(status_lock)
                     /\ last_sweep' = seen
                     /\ swept' = upstream_status'
                     /\ sweep_seen' = NoSweep
    /\ UNCHANGED <<othervars, mainvars, cfgvars, envvars, ratevars, connvars, refresher_pc, histvars>>

\* ---- refresh_rate_limit_counter ----------------------------------------------
\* delay_for(interval), lock, clear, and the function returns: there is no loop
Refresh ==
    /\ refresher_pc = "sleep"
    /\ rate_lock = Free
    /\ rate_limit_counter' = EmptyMap
    /\ refresher_pc' = "done"
    /\ verdicts' = [ip \in Clients |-> <<>>]
    /\ relayed' = [ip \in Clients |-> 0]
    /\ UNCHANGED <<othervars, mainvars, cfgvars, envvars, rate_lock, statusvars, connvars, checkvars,
                   avoid>>

\* ---- the upstream servers ----------------------------------------------------
\* a server starts or stops refusing, failing or answering 200
ServerChange ==
    /\ env_changes < MaxEnvChanges
    /\ \E i \in Upstreams, s \in ServerStates :
          /\ s # server[i]
          /\ server' = [server EXCEPT ![i] = s]
    /\ env_changes' = env_changes + 1
    /\ UNCHANGED <<othervars, mainvars, bind_ok, client_conns, client_reqs, cfgvars, ratevars, statusvars, connvars, checkvars,
                   refresher_pc, histvars>>

\* ---- specifications -------------------------------------------------------------
Handler(c) ==
    \/ \E ip \in Clients : Accept(c, ip)
    \/ CheckRate(c)
    \/ Send429(c)
    \/ Choose(c)
    \/ Connect(c)
    \/ MarkDead(c)
    \/ ReadRequest(c)
    \/ WriteUpstream(c)
    \/ ReadResponse(c)

Next ==
    \/ \E c \in Conns : Handler(c)
    \/ StartSweep
    \/ Probe
    \/ Refresh
    \/ ServerChange

Spec == Init /\ [][Next]_vars

\* the proxy in front of servers whose behaviour is fixed
NextSteady ==
    \/ \E c \in Conns : Handler(c)
    \/ StartSweep
    \/ Probe
    \/ Refresh

SpecRate == InitRate /\ [][NextSteady]_vars

SpecRelay == InitRelay /\ [][NextSteady]_vars

\* the proxy serving clients that connect and send no request
Connecting(c) ==
    \/ \E ip \in Clients : Accept(c, ip)
    \/ CheckRate(c)
    \/ Send429(c)
    \/ Choose(c)
    \/ Connect(c)
    \/ MarkDead(c)

NextConnecting ==
    \/ \E c \in Conns : Connecting(c)
    \/ StartSweep
    \/ Probe
    \/ Refresh

NextHealth ==
    \/ NextConnecting
    \/ ServerChange

SpecHealth == InitHealth /\ [][NextHealth]_vars

SpecFailover == InitFailover /\ [][NextConnecting]_vars

SpecAllDown == InitAllDown /\ [][NextConnecting]_vars

\* the process from its start
NextStartup ==
    \/ CheckOptions
    \/ Bind
    \/ NextConnecting

SpecStartup == InitStartup /\ [][NextStartup]_vars

\* Scheduling: the tokio runtime polls every task that is ready, a delay
\* elapses, a tokio Mutex is granted in FIFO order, and each index is drawn
\* again and again by a selection that keeps drawing.
Fairness ==
    /\ \A c \in Conns :
          /\ SF_vars(CheckRate(c))
          /\ WF_vars(Send429(c))
          /\ \A idx \in 0..(MaxIndex - 1) : SF_vars(ChooseIdx(c, idx))
          /\ WF_vars(Connect(c))
          /\ SF_vars(MarkDead(c))
    /\ SF_vars(StartSweep)
    /\ WF_vars(Probe)
    /\ SF_vars(Refresh)

\* the part of it a call of connect_to_upstream in flight relies on
CallFairness ==
    /\ \A c \in Conns :
          /\ SF_vars(ChooseIdx(c, 2))
          /\ WF_vars(Connect(c))
          /\ SF_vars(MarkDead(c))
    /\ WF_vars(Probe)

FairFailover == SpecFailover /\ CallFairness

\* the part of it the holders and the waiters of the two mutexes rely on:
\* a send to the client and a probe complete, and a waiter is granted the
\* mutex once it is free
LockFairness ==
    /\ \A c \in Conns :
          /\ SF_vars(CheckRate(c))
          /\ WF_vars(Send429(c))
          /\ SF_vars(MarkDead(c))
    /\ WF_vars(Probe)

FairLocks == SpecFailover /\ LockFairness

FairAllDown == SpecAllDown /\ Fairness

\* ---- rate limiting ----------------------------------------------------------
CountOf(counter, ip) == IF ip \in DOMAIN counter THEN counter[ip] ELSE 0

\* C1: with rate limiting enabled (max > 0), a connection whose rate check
\* rejects is answered with a 429 and then closed, and from its acceptance to
\* its close no upstream is selected, connected to or marked unhealthy for it.
C1_RejectedGets429Only ==
    max_requests_per_minute > 0 =>
        \A c \in Conns :
            verdict[c] = "Rejected" =>
                /\ pc[c] \in {"send_429", "closed"}
                /\ pc[c] = "send_429" => sent[c] = 0
                /\ pc[c] = "closed" => sent[c] = TOO_MANY_REQUESTS
                /\ upstream_idx[c] = NoUpstream
                /\ upstream_conn[c] = NoUpstream
                /\ tried[c] = {}

C1_Witness ==
    /\ max_requests_per_minute > 0
    /\ \E c \in Conns :
          /\ verdict[c] = "Rejected"
          /\ pc[c] = "closed"
          /\ sent[c] = TOO_MANY_REQUESTS

\* C2: with a maximum of 0 rate limiting is disabled: the limiter is never
\* invoked, the counter map is never modified and no connection gets a 429.
C2_ZeroDisablesLimiter ==
    max_requests_per_minute = 0 =>
        /\ rate_limit_counter = EmptyMap
        /\ \A c \in Conns :
              /\ verdict[c] = "pending"
              /\ sent[c] # TOO_MANY_REQUESTS

\* C3: a check creates the entry at 0 if absent, adds one, and rejects iff the
\* new value exceeds the maximum: of the checks made for one IP since the last
\* clear, the count is their number, exactly the first max were allowed and
\* every later one was rejected.
C3_FirstMaxAllowed ==
    \A ip \in Clients :
        /\ CountOf(rate_limit_counter, ip) = Len(verdicts[ip])
        /\ \A k \in 1..Len(verdicts[ip]) :
              verdicts[ip][k] = "Allowed" <=> k <= max_requests_per_minute

C3_Witness ==
    \E ip \in Clients :
        /\ max_requests_per_minute > 0
        /\ Len(verdicts[ip]) > max_requests_per_minute
        /\ verdicts[ip][1] = "Allowed"
        /\ verdicts[ip][Len(verdicts[ip])] = "Rejected"

\* C4: the limiter counts requests: with a maximum of 2, of the requests one
\* client sends inside one window, however they are spread over connections,
\* only the first 2 are relayed and the 3rd is answered 429.
C4_ThirdRequestRejected ==
    max_requests_per_minute = 2 =>
        \A ip \in Clients : relayed[ip] <= 2

\* C5: the window resetter is a loop that runs for the life of the process and
\* clears the counter map once per interval, again and again.
C5_ResetterKeepsRunning ==
    max_requests_per_minute > 0 => refresher_pc # "done"

\* ---- failover -----------------------------------------------------------------
\* C6: when every upstream refuses connections (or every flag is already
\* false), connect_to_upstream terminates with an error and the handler sends
\* a 502 and closes.
C6_AllDownGets502 ==
    \A c \in Conns :
        (pc[c] = "choose") ~> (pc[c] = "closed" /\ sent[c] = BAD_GATEWAY)

\* a handler that is inside its call of connect_to_upstream
InCall(c) == pc[c] \in {"choose", "connect", "mark_dead"}

C8_BothMarkedAtReturn ==
    \A c \in Conns :
        upstream_conn[c] = 2 => ~upstream_status[0] /\ ~upstream_status[1]

\* C8 amended: when connect_to_upstream returns its connection to upstream 2,
\* the flag of each of upstream 0 and 1 that this call tried is false (one it
\* never drew may still be marked healthy).
C8_TriedMarkedAtReturn ==
    \A c \in Conns :
        upstream_conn[c] = 2 =>
            \A i \in tried[c] \ {2} : ~upstream_status[i]

C8_Witness ==
    \E c \in Conns :
        /\ upstream_conn[c] = 2
        /\ 0 \in tried[c]
        /\ 1 \notin tried[c]
        /\ upstream_status[1]

\* ---- health checking ------------------------------------------------------------
\* C9: in every reachable state the health vector has one entry per upstream
\* address, and the addresses never change after startup.
C9_OneFlagPerAddress ==
    /\ [](VecLen(upstream_status) = VecLen(upstream_addresses))
    /\ [][upstream_addresses' = upstream_addresses]_vars

C9_Witness ==
    /\ VecLen(upstream_status) = 2
    /\ \E i \in Upstreams : last_sweep[i] = "ok" /\ upstream_status[i]
    /\ \E c \in Conns : pc[c] = "choose" /\ tried[c] # {}

\* C10 as claimed: after a sweep in which upstream A answered non-200 and
\* another upstream answered 200, a connection accepted after that sweep and
\* before the next one is connected only to an upstream other than A.
C10_AcceptedAfterSweepAvoids ==
    \A c \in Conns : upstream_conn[c] \notin avoid[c]

\* C10 amended: after such a sweep and until the next sweep starts, every
\* selection made for a connection returns an upstream other than A, so a
\* connection connected on a selection made in that span is not connected to A.
C10_SelectionAfterSweepAvoids ==
    [][checker_pc = "sleep" =>
          \A c \in Conns :
              upstream_idx'[c] # upstream_idx[c] =>
                  upstream_idx'[c] \notin Non200In(last_sweep)]_vars

C10_Witness ==
    /\ checker_pc = "sleep"
    /\ \E c \in Conns :
          /\ avoid[c] # {}
          /\ avoid[c] = Non200In(last_sweep)
          /\ upstream_conn[c] # NoUpstream
          /\ upstream_conn[c] \notin avoid[c]

\* C11: a sweep is a full resync: when it finishes, the flag of every upstream
\* is true iff its probe connected, was written, was read back and had status
\* 200, whatever the flag was before (an upstream marked unhealthy is probed
\* too and restored when it answers 200).
C11_SweepIsFullResync ==
    [][checker_pc = "sweep" /\ checker_pc' = "sleep" =>
          \A i \in Upstreams : upstream_status'[i] <=> last_sweep'[i] = "ok"]_vars

C11_Witness ==
    /\ checker_pc = "sleep"
    /\ \E c \in Conns :
          /\ pc[c] = "choose"
          /\ upstream_idx[c] \in tried[c]
          /\ last_sweep[upstream_idx[c]] = "ok"
          /\ upstream_status[upstream_idx[c]]

\* ---- relaying ------------------------------------------------------------------
\* the responses the proxy makes up for a bad request or a failing upstream
RelayErrors == {BAD_REQUEST, PAYLOAD_TOO_LARGE, BAD_GATEWAY}

\* C12: with upstreams [A, B] both healthy and a maximum of 0, a client that
\* connects and sends a well-formed request has it forwarded to exactly one of
\* A or B and receives that upstream's response, not an error response the
\* proxy generated: a handler answers and closes only once connected to A or
\* B, and what it answers to a good request served by the upstream is that
\* upstream's response.
C12_ClientGetsUpstreamResponse ==
    (max_requests_per_minute = 0 /\ \A i \in Upstreams : server[i] = "ok") =>
        \A c \in Conns :
            /\ pc[c] = "closed" => upstream_conn[c] \in Upstreams
            /\ sent[c] \notin {0} \cup RelayErrors =>
                  /\ upstream_conn[c] \in Upstreams
                  /\ sent[c] = UpstreamResponse(upstream_conn[c])

\* C13: in the relay loop a malformed, invalid-content-length or oversized
\* request is answered 400 (413 for a body too large), is not forwarded to the
\* upstream, and leaves the handler in the loop, still connected, so that a
\* following valid request is relayed.
C13_ParseErrorKeepsRelaying ==
    [][\A c \in Conns, error \in ParseErrors :
          ReadResult(c, error) =>
              /\ sent'[c] = IF error = "RequestBodyTooLarge"
                                THEN PAYLOAD_TOO_LARGE ELSE BAD_REQUEST
              /\ pc'[c] = "read_request"
              /\ upstream_conn[c] # NoUpstream
              /\ upstream_conn'[c] = upstream_conn[c]
              /\ inflight'[c] = inflight[c]
              /\ relayed' = relayed]_vars

C13_Witness ==
    \E c \in Conns :
        /\ sent[c] = BAD_REQUEST
        /\ pc[c] = "read_response"
        /\ inflight[c] = 1

\* C14: when the write of a request to the upstream or the read of its
\* response fails, the handler sends a 502 and is closed: it selects and
\* connects to no other upstream, and once closed it relays nothing more.
C14_UpstreamFailureCloses ==
    [][\A c \in Conns :
          /\ (WriteResult(c, FALSE) \/ ResponseResult(c, FALSE)) =>
                /\ pc'[c] = "closed"
                /\ sent'[c] = BAD_GATEWAY
          /\ pc[c] = "closed" =>
                /\ pc'[c] = "closed"
                /\ sent'[c] = sent[c]
                /\ upstream_idx'[c] = upstream_idx[c]
                /\ upstream_conn'[c] = upstream_conn[c]
                /\ tried'[c] = tried[c]
                /\ inflight'[c] = inflight[c]]_vars

C14_Witness ==
    \E c \in Conns :
        /\ pc[c] = "closed"
        /\ sent[c] = BAD_GATEWAY
        /\ inflight[c] = 1
        /\ requests < client_reqs
        /\ \E i \in Upstreams : i # upstream_conn[c] /\ upstream_status[i]

\* C15: no pipelining: a connection has at most one request in flight, a
\* request is written to the upstream only when none is, and the one in
\* flight ends with its response relayed to the client.
C15_NoPipelining ==
    /\ [](\A c \in Conns :
            /\ inflight[c] \in {0, 1}
            /\ pc[c] = "write_upstream" => inflight[c] = 0)
    /\ [][\A c \in Conns :
            inflight'[c] < inflight[c] =>
                sent'[c] = UpstreamResponse(upstream_conn[c])]_vars

C15_Witness ==
    \E c \in Conns :
        /\ pc[c] = "write_upstream"
        /\ sent[c] = UpstreamResponse(upstream_conn[c])
        /\ inflight[c] = 0

\* ---- locking -------------------------------------------------------------------
\* the positions at which a handler is suspended in a network read, write or connect
NetworkIO == {"send_429", "connect", "read_request", "write_upstream", "read_response"}

\* C16: no handler reads, writes or connects on the network while it holds
\* the registry lock or the rate-limit lock; the rate-limit lock is released
\* before a response is written to the client.
C16_NoNetworkIOUnderLock ==
    \A c \in Conns :
        pc[c] \in NetworkIO => rate_lock # c /\ status_lock # c

\* the tasks that take the mutexes
Tasks == Conns \cup {HealthTask}

\* C17: no task holds the registry lock and the rate-limit lock at once (a
\* handler holds the rate-limit lock only while it sends its 429, where it asks
\* for no other lock, and only the sweep holds the registry lock), and no
\* task waits for a lock forever: each lock is free again and again, and every
\* handler waiting for its rate check or to mark an upstream dead gets there.
C17_NoLockCycle ==
    /\ [](/\ \A t \in Tasks : ~(status_lock = t /\ rate_lock = t)
          /\ \A c \in Conns : rate_lock = c => pc[c] = "send_429"
          /\ status_lock # Free => status_lock = HealthTask /\ checker_pc = "sweep")
    /\ []<>(status_lock = Free)
    /\ []<>(rate_lock = Free)
    /\ <>[](\A c \in Conns : pc[c] \notin {"check_rate", "mark_dead"})

C17_Witness ==
    /\ status_lock = HealthTask
    /\ \E c \in Conns : pc[c] = "mark_dead"

\* C18: the sweep is idempotent: a sweep that sees the probe outcomes the sweep
\* before it saw leaves the vector that sweep left, whatever the handlers made
\* of the vector in between.
C18_SweepIdempotent ==
    [][(checker_pc = "sweep" /\ checker_pc' = "sleep" /\ last_sweep' = last_sweep) =>
          upstream_status' = swept]_vars

C18_Witness ==
    /\ checker_pc = "sweep"
    /\ checker_idx = 1
    /\ sweep_seen[0] = "ok"
    /\ last_sweep[0] = "ok"
    /\ upstream_status[0] = swept[0]
    /\ \E c \in Conns : pc[c] = "choose" /\ 0 \in tried[c]

\* C20: only the health checker sets a flag to true, and every write to the
\* vector is made under the registry lock: a flag changes either in a step of
\* the sweep, which holds the lock, or, while nobody holds it, to false at the
\* index of a handler that takes the lock to mark its upstream dead.
C20_OnlyCheckerRestores ==
    [][\A i \in Upstreams :
          upstream_status'[i] # upstream_status[i] =>
              \/ status_lock = HealthTask /\ checker_pc = "sweep" /\ checker_idx = i
              \/ /\ status_lock = Free
                 /\ status_lock' = Free
                 /\ ~upstream_status'[i]
                 /\ \E c \in Conns :
                       /\ pc[c] = "mark_dead"
                       /\ pc'[c] # "mark_dead"
                       /\ upstream_idx[c] = i]_vars

C20_Witness ==
    /\ \E i \in Upstreams : last_sweep[i] = "ok" /\ upstream_status[i]
    /\ \E c \in Conns :
          /\ pc[c] = "choose"
          /\ upstream_idx[c] \in tried[c]
          /\ ~upstream_status[upstream_idx[c]]
          /\ last_sweep[upstream_idx[c]] = "ok"

\* ---- startup -------------------------------------------------------------------
\* C19: with no upstream given the process exits with status 1 before the
\* listener is bound, and a failed bind exits with status 1 as well; in both
\* cases no background task was spawned and no connection accepted, and the
\* proxy never serves without an upstream.
C19_FatalStartupErrors ==
    /\ main_pc = "exited" =>
          /\ exit_code = ExitFailure
          /\ checker_pc = "unspawned"
          /\ refresher_pc = "unspawned"
          /\ \A c \in Conns : pc[c] = "idle"
    /\ VecLen(upstream_addresses) = 0 => main_pc \in {"parse", "exited"}
    /\ ~bind_ok => main_pc \in {"parse", "bind", "exited"}
    /\ main_pc \in {"parse", "bind"} =>
          /\ exit_code = NoExit
          /\ checker_pc = "unspawned"
          /\ refresher_pc = "unspawned"
          /\ \A c \in Conns : pc[c] = "idle"

C19_Witness ==
    /\ main_pc = "exited"
    /\ exit_code = ExitFailure
    /\ VecLen(upstream_addresses) = 0
    /\ bind_ok

\* ---- selection and connect ----------------------------------------------------
\* C21: the selector returns only an index within the range of the vector
\* whose flag is true when it returns, read with the registry lock free of
\* any other holder.
C21_SelectsHealthyOnly ==
    [][\A c \in Conns :
          (pc[c] = "choose" /\ pc'[c] = "connect") =>
              /\ upstream_idx'[c] \in DOMAIN upstream_status
              /\ upstream_status[upstream_idx'[c]]
              /\ status_lock = Free]_vars

C21_Witness ==
    \E c \in Conns :
        /\ pc[c] = "connect"
        /\ upstream_idx[c] = 2
        /\ tried[c] = {0}
        /\ ~upstream_status[0]
        /\ ~upstream_status[1]

\* C22: a failed connect to index i clears the flag of i before the handler
\* selects again, so that, as long as no sweep has finished, a call of
\* connect_to_upstream attempts no upstream twice and makes at most as many
\* attempts as there are upstreams.
C22_EagerDemotion ==
    /\ [][\A c \in Conns :
            /\ (pc[c] = "mark_dead" /\ pc'[c] # "mark_dead") =>
                  ~upstream_status'[upstream_idx[c]]
            /\ (pc[c] = "connect" /\ pc'[c] # "connect" /\ last_sweep = NoSweep) =>
                  upstream_idx[c] \notin tried[c]]_vars
    /\ [](\A c \in Conns : Cardinality(tried[c]) <= VecLen(upstream_addresses))

C22_Witness ==
    /\ last_sweep = NoSweep
    /\ \E c \in Conns :
          /\ pc[c] = "read_request"
          /\ tried[c] = {0, 1, 2}
          /\ ~upstream_status[0]
          /\ ~upstream_status[1]

\* C23: a sweep is atomic for the handlers: the checker holds the registry
\* lock from before its first probe until after its last write, and while it
\* does no handler selects an upstream or marks one dead.
C23_SweepIsAtomic ==
    /\ [](checker_pc = "sweep" => status_lock = HealthTask)
    /\ [][checker_pc = "sweep" =>
            \A c \in Conns :
                /\ upstream_idx'[c] = upstream_idx[c]
                /\ pc[c] \in {"choose", "mark_dead"} => pc'[c] = pc[c]]_vars

C23_Witness ==
    /\ checker_pc = "sweep"
    /\ checker_idx = 1
    /\ ~upstream_status[0]
    /\ upstream_status[1]
    /\ \E c \in Conns : pc[c] = "choose"

\* C24: in the relay loop a clean end of input from the client and an I/O
\* error while reading a request both close the handler without a response to
\* the client and without anything forwarded to the upstream.
C24_ClientGoneClosesSilently ==
    [][\A c \in Conns, gone \in {"IncompleteRequest0", "ConnectionError"} :
          ReadResult(c, gone) =>
              /\ pc'[c] = "closed"
              /\ sent'[c] = sent[c]
              /\ inflight'[c] = inflight[c]
              /\ relayed' = relayed]_vars

C24_Witness ==
    \E c \in Conns :
        /\ pc[c] = "closed"
        /\ upstream_conn[c] # NoUpstream
        /\ sent[c] = 0
        /\ inflight[c] = 0

\* the states of a handler: 1 RateCheck, 2 Connecting, 3 Relay, 4 Closed
Phase(at) ==
    CASE at = "idle" -> 0
      [] at \in {"check_rate", "send_429"} -> 1
      [] at \in {"choose", "connect", "mark_dead"} -> 2
      [] at \in {"read_request", "write_upstream", "read_response"} -> 3
      [] at = "closed" -> 4

\* C25: a handler moves through RateCheck, Connecting, Relay and Closed only
\* forward: it never goes back to a state it has left, the upstream
\* connection it has opened is the only one it ever has, and Closed is final.
C25_ForwardOnly ==
    [][\A c \in Conns :
          /\ Phase(pc'[c]) >= Phase(pc[c])
          /\ upstream_conn[c] # NoUpstream => upstream_conn'[c] = upstream_conn[c]
          /\ upstream_conn'[c] # NoUpstream => Phase(pc'[c]) >= 3
          /\ pc[c] = "closed" => pc'[c] = "closed"]_vars

C25_Witness ==
    \E c \in Conns :
        /\ pc[c] = "closed"
        /\ Cardinality(tried[c]) = 2
        /\ sent[c] = UpstreamResponse(upstream_conn[c])

\* C26 as claimed: a connect attempt is made only to an upstream whose flag is
\* true at the moment of the attempt.
C26_ConnectsToHealthyOnly ==
    [][\A c \in Conns :
          (pc[c] = "connect" /\ pc'[c] # "connect") =>
              upstream_status[upstream_idx[c]]]_vars

\* C26 amended: a connect attempt is made only after a selection, to the
\* upstream that selection returned, whose flag was true when the selector
\* read it (another handler or a sweep may have cleared it since).
C26_ConnectsToSelected ==
    [][\A c \in Conns :
          /\ (pc'[c] = "connect" /\ pc[c] # "connect") =>
                /\ pc[c] = "choose"
                /\ upstream_status[upstream_idx'[c]]
          /\ pc[c] = "connect" =>
                /\ upstream_idx'[c] = upstream_idx[c]
                /\ tried'[c] \subseteq tried[c] \cup {upstream_idx[c]}
                /\ upstream_conn'[c] \in {NoUpstream, upstream_idx[c]}]_vars

C26_Witness ==
    \E c \in Conns :
        /\ pc[c] = "connect"
        /\ upstream_idx[c] \notin tried[c]
        /\ ~upstream_status[upstream_idx[c]]

\* C27: the counts are per client IP: a rate check for IP a adds exactly one
\* to the count of a, also when it rejects, changes no other count and no
\* health flag, and rejects iff the count of a itself exceeds the maximum.
C27_CountsAreIndependent ==
    [][\A c \in Conns :
          (pc[c] = "check_rate" /\ pc'[c] # "check_rate") =>
              /\ CountOf(rate_limit_counter', client_ip[c]) =
                    CountOf(rate_limit_counter, client_ip[c]) + 1
              /\ \A b \in Clients \ {client_ip[c]} :
                    CountOf(rate_limit_counter', b) = CountOf(rate_limit_counter, b)
              /\ upstream_status' = upstream_status
              /\ verdict'[c] = "Rejected" <=>
                    CountOf(rate_limit_counter, client_ip[c]) + 1
                        > max_requests_per_minute]_vars

C27_Witness ==
    /\ max_requests_per_minute = 1
    /\ CountOf(rate_limit_counter, 1) = 1
    /\ CountOf(rate_limit_counter, 2) = 1
    /\ \A c \in 1..2 : verdict[c] = "Allowed"

\* ==== farm: week5/farm/src/main.rs =========================================
\* The numbers a run is given; the values do not matter to the pool, equal
\* numbers in one queue do.
NumValues == {4, 9}
Inputs(len) == UNION {[1..k -> NumValues] : k \in 0..len}

\* ProxyIdle: the proxy serving nobody, for the specifications of the other
\* programs.
ProxyIdle == InitWith(1, 0, [i \in 0..0 |-> "ok"], MaxEnvChanges, 0, 0)

\* VecDeque::pop_front: the front element, and what is left of the queue.
Front(queue) == Head(queue)
PopFrontKept(queue) == queue
PopFront(queue) == Tail(queue)

\* main, lines 85-94: the CPU count, the queue from argv, no thread yet.
FarmInit ==
    /\ num_threads \in 1..MaxWorkers
    /\ farm_input \in Inputs(MaxNums)
    /\ nums = farm_input
    /\ threads = 0
    /\ joined = 0
    /\ farm_main = "spawn"
    /\ worker_pc = [w \in Workers |-> "unspawned"]
    /\ num = [w \in Workers |-> 0]
    /\ popped = [w \in Workers |-> 0]
    /\ factored = [i \in 1..Len(farm_input) |-> 0]

\* main, lines 95-100: one more worker thread; after the last, the joins.
FarmSpawn ==
    /\ farm_main = "spawn"
    /\ threads < num_threads
    /\ threads' = threads + 1
    /\ worker_pc' = [worker_pc EXCEPT ![threads + 1] = "pop"]
    /\ farm_main' = IF threads + 1 = num_threads THEN "join" ELSE "spawn"
    /\ UNCHANGED <<proxyvars, pmapvars, deetvars>>
    /\ UNCHANGED <<num_threads, nums, joined, num, popped, farm_input, factored>>

\* worker_thread, line 76, with pop_front_from_queue: under the mutex, take
\* the front number or find the queue empty and leave the loop.
FarmPop(w) ==
    /\ worker_pc[w] = "pop"
    /\ IF nums # <<>>
          THEN /\ num' = [num EXCEPT ![w] = Front(nums)]
               /\ popped' = [popped EXCEPT ![w] = Len(farm_input) - Len(nums) + 1]
               /\ nums' = PopFront(nums)
               /\ worker_pc' = [worker_pc EXCEPT ![w] = "factor"]
          ELSE /\ worker_pc' = [worker_pc EXCEPT ![w] = "done"]
               /\ UNCHANGED <<nums, num, popped>>
    /\ UNCHANGED <<proxyvars, pmapvars, deetvars>>
    /\ UNCHANGED <<num_threads, threads, joined, farm_main, farm_input, factored>>

\* worker_thread, line 77: factor_number(num), outside the mutex.
FarmFactor(w) ==
    /\ worker_pc[w] = "factor"
    /\ popped[w] \in DOMAIN factored
    /\ factored' = [factored EXCEPT ![popped[w]] = @ + 1]
    /\ worker_pc' = [worker_pc EXCEPT ![w] = "pop"]
    /\ UNCHANGED <<proxyvars, pmapvars, deetvars>>
    /\ UNCHANGED <<num_threads, nums, threads, joined, farm_main, num, popped,
                   farm_input>>

\* main, lines 103-107: join the handles in the order they were pushed; after
\* the last, print the time and return.
FarmJoin ==
    /\ farm_main = "join"
    /\ joined < threads
    /\ worker_pc[joined + 1] = "done"
    /\ joined' = joined + 1
    /\ farm_main' = IF joined + 1 = threads THEN "done" ELSE "join"
    /\ UNCHANGED <<proxyvars, pmapvars, deetvars>>
    /\ UNCHANGED <<num_threads, nums, threads, worker_pc, num, popped, farm_input,
                   factored>>

NextFarm ==
    \/ FarmSpawn
    \/ \E w \in Workers : FarmPop(w)
    \/ \E w \in Workers : FarmFactor(w)
    \/ FarmJoin

InitFarm == ProxyIdle /\ PmapIdle /\ DeetIdle /\ FarmInit
SpecFarm == InitFarm /\ [][NextFarm]_vars

\* C28: every number of the queue is factored by one worker once: a position
\* of the input is never factored twice, a worker that factors holds the
\* number of a position nobody else holds or has factored, a worker stops only
\* on an empty queue, and when main has finished every worker has stopped and
\* every position has been factored exactly once.
C28_EachNumberFactoredOnce ==
    /\ \A i \in DOMAIN factored : factored[i] <= 1
    /\ \A w \in Workers :
          worker_pc[w] = "factor" =>
              /\ popped[w] \in DOMAIN factored
              /\ num[w] = farm_input[popped[w]]
              /\ factored[popped[w]] = 0
              /\ \A v \in Workers \ {w} :
                    worker_pc[v] = "factor" => popped[v] # popped[w]
    /\ \A w \in Workers : worker_pc[w] = "done" => nums = <<>>
    /\ (farm_main = "done" /\ num_threads > 0) =>
          /\ \A w \in 1..num_threads : worker_pc[w] = "done"
          /\ \A i \in DOMAIN factored : factored[i] = 1

C28_Witness ==
    /\ farm_main = "done"
    /\ num_threads > 1
    /\ Len(farm_input) = MaxNums
    /\ \E i \in DOMAIN farm_input : \E j \in DOMAIN farm_input :
          i # j /\ farm_input[i] = farm_input[j]
    /\ \A i \in DOMAIN factored : factored[i] = 1


\* ==== parallel_map: week6/parallel_map/src/main.rs =========================
\* The elements a vector is made of, and the closure main passes (line 56).
PmValues == {2, 3}
Default == 0
F(val) == val * val

\* Line 33: the index sent with the element popped in round i of len.
IndexOfRound(len, i) == i
IndexOf(len, i) == len - i - 1

\* Lines 10-16: the output filled with defaults, both channels empty, main
\* holding sender and out_sender, no thread yet.
PmapInit ==
    /\ pm_num_threads \in 1..MaxWorkers
    /\ pm_input \in UNION {[1..k -> PmValues] : k \in 0..MaxInput}
    /\ input_vec = pm_input
    /\ output_vec = [i \in 0..(Len(pm_input) - 1) |-> Default]
    /\ pm_i = 0
    /\ channel = <<>>
    /\ out_channel = <<>>
    /\ sender = TRUE
    /\ out_sender = 1
    /\ pm_threads = 0
    /\ pm_joined = 0
    /\ pm_main = "spawn"
    /\ pm_pc = [w \in Workers |-> "unspawned"]
    /\ pair = [w \in Workers |-> <<0, 0>>]
    /\ applied = [i \in 0..(Len(pm_input) - 1) |-> 0]

\* Lines 17-28: one more worker with its clones of receiver and out_sender.
PmapSpawn ==
    /\ pm_main = "spawn"
    /\ pm_threads < pm_num_threads
    /\ pm_threads' = pm_threads + 1
    /\ out_sender' = out_sender + 1
    /\ pm_pc' = [pm_pc EXCEPT ![pm_threads + 1] = "recv"]
    /\ pm_main' = IF pm_threads + 1 = pm_num_threads THEN "send" ELSE "spawn"
    /\ UNCHANGED <<proxyvars, farmvars, deetvars>>
    /\ UNCHANGED <<pm_num_threads, pm_input, input_vec, output_vec, pm_i, channel,
                   out_channel, sender, pm_joined, pair, applied>>

\* Lines 30-35: pop the last element and send it with its index; the channel
\* is unbounded and main keeps receiver, so the send succeeds.
PmapSend ==
    /\ pm_main = "send"
    /\ IF pm_i < Len(pm_input)
          THEN /\ input_vec # <<>>
               /\ channel' = Append(channel, <<input_vec[Len(input_vec)],
                                               IndexOf(Len(pm_input), pm_i)>>)
               /\ input_vec' = SubSeq(input_vec, 1, Len(input_vec) - 1)
               /\ pm_i' = pm_i + 1
               /\ UNCHANGED pm_main
          ELSE /\ pm_main' = "drop_sender"
               /\ UNCHANGED <<channel, input_vec, pm_i>>
    /\ UNCHANGED <<proxyvars, farmvars, deetvars>>
    /\ UNCHANGED <<pm_num_threads, pm_input, output_vec, out_channel, sender, out_sender,
                   pm_threads, pm_joined, pm_pc, pair, applied>>

\* Line 36: drop(sender).
PmapDropSender ==
    /\ pm_main = "drop_sender"
    /\ sender' = FALSE
    /\ pm_main' = "drop_out_sender"
    /\ UNCHANGED <<proxyvars, farmvars, deetvars>>
    /\ UNCHANGED <<pm_num_threads, pm_input, input_vec, output_vec, pm_i, channel,
                   out_channel, out_sender, pm_threads, pm_joined, pm_pc, pair, applied>>

\* Line 37: drop(out_sender), main's own handle.
PmapDropOutSender ==
    /\ pm_main = "drop_out_sender"
    /\ out_sender' = out_sender - 1
    /\ pm_main' = "collect"
    /\ UNCHANGED <<proxyvars, farmvars, deetvars>>
    /\ UNCHANGED <<pm_num_threads, pm_input, input_vec, output_vec, pm_i, channel,
                   out_channel, sender, pm_threads, pm_joined, pm_pc, pair, applied>>

\* Line 21: receiver_clone.recv() takes the oldest pair, waits while the
\* channel is empty and sender lives, and fails once sender is dropped and the
\* channel is empty: the worker ends and its out_sender clone is dropped.
PmapRecv(w) ==
    /\ pm_pc[w] = "recv"
    /\ IF channel # <<>>
          THEN /\ pair' = [pair EXCEPT ![w] = Head(channel)]
               /\ channel' = Tail(channel)
               /\ pm_pc' = [pm_pc EXCEPT ![w] = "send"]
               /\ UNCHANGED out_sender
          ELSE /\ ~sender
               /\ pm_pc' = [pm_pc EXCEPT ![w] = "exited"]
               /\ out_sender' = out_sender - 1
               /\ UNCHANGED <<pair, channel>>
    /\ UNCHANGED <<proxyvars, farmvars, deetvars>>
    /\ UNCHANGED <<pm_num_threads, pm_input, input_vec, output_vec, pm_i, out_channel,
                   sender, pm_threads, pm_joined, pm_main, applied>>

\* Lines 22-25: apply f and send the result with the index it came with.
PmapApply(w) ==
    /\ pm_pc[w] = "send"
    /\ pair[w][2] \in DOMAIN applied
    /\ applied' = [applied EXCEPT ![pair[w][2]] = @ + 1]
    /\ out_channel' = Append(out_channel, <<F(pair[w][1]), pair[w][2]>>)
    /\ pm_pc' = [pm_pc EXCEPT ![w] = "recv"]
    /\ UNCHANGED <<proxyvars, farmvars, deetvars>>
    /\ UNCHANGED <<pm_num_threads, pm_input, input_vec, output_vec, pm_i, channel, sender,
                   out_sender, pm_threads, pm_joined, pm_main, pair>>

\* Lines 39-42: store each result at its index, until every out_sender handle
\* is dropped and the channel is empty.
PmapCollect ==
    /\ pm_main = "collect"
    /\ IF out_channel # <<>>
          THEN /\ Head(out_channel)[2] \in DOMAIN output_vec
               /\ output_vec' = [output_vec EXCEPT ![Head(out_channel)[2]] =
                                                    Head(out_channel)[1]]
               /\ out_channel' = Tail(out_channel)
               /\ UNCHANGED pm_main
          ELSE /\ out_sender = 0
               /\ pm_main' = "join"
               /\ UNCHANGED <<output_vec, out_channel>>
    /\ UNCHANGED <<proxyvars, farmvars, deetvars>>
    /\ UNCHANGED <<pm_num_threads, pm_input, input_vec, pm_i, channel, sender, out_sender,
                   pm_threads, pm_joined, pm_pc, pair, applied>>

\* Lines 44-48: join the threads in order, then return output_vec.
PmapJoin ==
    /\ pm_main = "join"
    /\ pm_joined < pm_threads
    /\ pm_pc[pm_joined + 1] = "exited"
    /\ pm_joined' = pm_joined + 1
    /\ pm_main' = IF pm_joined + 1 = pm_threads THEN "done" ELSE "join"
    /\ UNCHANGED <<proxyvars, farmvars, deetvars>>
    /\ UNCHANGED <<pm_num_threads, pm_input, input_vec, output_vec, pm_i, channel,
                   out_channel, sender, out_sender, pm_threads, pm_pc, pair, applied>>

NextPmap ==
    \/ PmapSpawn
    \/ PmapSend
    \/ PmapDropSender
    \/ PmapDropOutSender
    \/ \E w \in Workers : PmapRecv(w)
    \/ \E w \in Workers : PmapApply(w)
    \/ PmapCollect
    \/ PmapJoin

InitPmap == ProxyIdle /\ FarmIdle /\ DeetIdle /\ PmapInit
SpecPmap == InitPmap /\ [][NextPmap]_vars
\* Main and the workers are OS threads: whichever can take a step takes one.
FairPmap == SpecPmap /\ WF_vars(NextPmap)

\* What parallel_map returns is the map of its input: same length, f of the
\* element at every index, f called once per index.
Returned ==
    /\ DOMAIN output_vec = 0..(Len(pm_input) - 1)
    /\ \A i \in DOMAIN output_vec : output_vec[i] = F(pm_input[i + 1])
    /\ \A i \in DOMAIN applied : applied[i] = 1

\* C29: parallel_map terminates, f is never called twice for an index, and
\* what it returns has the length of the input and f(input[i]) at every index
\* i, for every number of threads and every order of the workers.
C29_ParallelMapIsMap ==
    /\ <>(pm_main = "done")
    /\ [](\A i \in DOMAIN applied : applied[i] <= 1)
    /\ [](pm_main = "done" => Returned)

C29_Witness ==
    /\ pm_main = "done"
    /\ pm_num_threads > 1
    /\ Len(pm_input) = MaxInput
    /\ \E i \in DOMAIN pm_input : \E j \in DOMAIN pm_input : pm_input[i] # pm_input[j]
    /\ Returned


\* ==== deet: proj-1/deet/src/debugger.rs, inferior.rs ========================
\* Addresses a breakpoint command can name, the statuses waitpid can report and
\* what continue_run can return: a status, or the error of a failed ptrace or
\* waitpid call.
Addrs == {1, 2}
\* What a breakpoint command is given: no "*" (the usage line), something
\* parse_address rejects, or an address.
AddressForms == {"Usage", "invalid address", "*address"}
Statuses == {"Exited", "Signaled", "Stopped"}
ContinueResults == Statuses \cup {"Err"}

\* A process that has exited or was killed by a signal has been reaped by the
\* waitpid that reported it: every later ptrace, kill or waitpid on its pid
\* fails.
Alive(process) == process = "stopped"

\* Inferior::continue_run on a process: only an error for a dead one.
ContinueRun(process) == IF Alive(process) THEN ContinueResults ELSE {"Err"}

\* The state of the process after continue_run returned a status.
After(status) ==
    CASE status = "Exited" -> "exited"
      [] status = "Signaled" -> "signaled"
      [] OTHER -> "stopped"

\* Debugger::new, lines 41-49: no inferior, no breakpoint, at the prompt.
DeetInit ==
    /\ inferior = "None"
    /\ child = "none"
    /\ breakpoints = {}
    /\ dbg_pc = "prompt"
    /\ commands = 0
    /\ output = "none"

\* The command loop reads one more command.
Prompt ==
    /\ dbg_pc = "prompt"
    /\ commands < MaxCommands
    /\ commands' = commands + 1
    /\ UNCHANGED <<proxyvars, farmvars, pmapvars>>

\* Run, lines 55-91.  An inferior on record is killed first (Inferior::kill
\* unwraps kill and waitpid); Inferior::new spawns the target or panics; then
\* continue_run(..).unwrap(), and the status is printed.  Exited and Signaled
\* leave self.inferior as it is; Stopped unwraps the line of the address.
Run(spawned, result, line) ==
    /\ Prompt
    /\ UNCHANGED breakpoints
    /\ IF inferior = "Some" /\ ~Alive(child)
          THEN /\ dbg_pc' = "panicked"
               /\ UNCHANGED <<inferior, child, output>>
          ELSE IF ~spawned
          THEN /\ dbg_pc' = "panicked"
               /\ inferior' = "None"
               /\ child' = IF inferior = "Some" THEN "killed" ELSE child
               /\ output' = IF inferior = "Some" THEN "Killing running inferior" ELSE output
          ELSE /\ inferior' = "Some"
               /\ result \in ContinueRun("stopped")
               /\ IF result = "Err"
                     THEN /\ dbg_pc' = "panicked"
                          /\ child' = "stopped"
                          /\ output' = IF inferior = "Some" THEN "Killing running inferior"
                                                             ELSE output
                     ELSE /\ child' = After(result)
                          /\ output' = result
                          /\ dbg_pc' = IF result = "Stopped" /\ ~line THEN "panicked"
                                                                      ELSE "prompt"

\* Quit, lines 92-98.
Quit ==
    /\ Prompt
    /\ UNCHANGED breakpoints
    /\ IF inferior = "Some"
          THEN IF Alive(child)
                  THEN /\ inferior' = "None"
                       /\ child' = "killed"
                       /\ output' = "Killing running inferior"
                       /\ dbg_pc' = "returned"
                  ELSE /\ dbg_pc' = "panicked"
                       /\ UNCHANGED <<inferior, child, output>>
          ELSE /\ dbg_pc' = "returned"
               /\ UNCHANGED <<inferior, child, output>>

\* Continue, lines 99-123.
Continue(result) ==
    /\ Prompt
    /\ UNCHANGED breakpoints
    /\ IF inferior = "None"
          THEN /\ output' = "There is not one running!"
               /\ UNCHANGED <<inferior, child, dbg_pc>>
          ELSE /\ result \in ContinueRun(child)
               /\ IF result = "Err"
                     THEN /\ dbg_pc' = "panicked"
                          /\ UNCHANGED <<inferior, child, output>>
                     ELSE /\ child' = After(result)
                          /\ output' = result
                          /\ inferior' = IF result = "Stopped" THEN "Some" ELSE "None"
                          /\ UNCHANGED dbg_pc

\* Backtrace, lines 124-134: print_backtrace(..).unwrap() on the inferior.
Backtrace(ok) ==
    /\ Prompt
    /\ UNCHANGED <<breakpoints, inferior, child>>
    /\ IF inferior = "Some"
          THEN IF ok /\ Alive(child)
                  THEN /\ output' = "backtrace"
                       /\ UNCHANGED dbg_pc
                  ELSE /\ dbg_pc' = "panicked"
                       /\ UNCHANGED output
          ELSE /\ output' = "Error No process is running"
               /\ UNCHANGED dbg_pc

\* BreakPoint, lines 135-169: a usage or parse error, or the address is
\* recorded; with an inferior, only if write_byte succeeds.
BreakPoint(form, arg, written) ==
    /\ Prompt
    /\ UNCHANGED <<inferior, child, dbg_pc>>
    /\ IF form # "*address"
          THEN /\ output' = form
               /\ UNCHANGED breakpoints
          ELSE IF inferior = "Some" /\ ~(written /\ Alive(child))
          THEN /\ output' = "Error in Setting breakpoint"
               /\ UNCHANGED breakpoints
          ELSE /\ output' = "Set breakpoint"
               /\ breakpoints' = breakpoints \cup {arg}

NextDeet ==
    \/ \E spawned \in BOOLEAN, result \in ContinueResults, line \in BOOLEAN :
          Run(spawned, result, line)
    \/ Quit
    \/ \E result \in ContinueResults : Continue(result)
    \/ \E ok \in BOOLEAN : Backtrace(ok)
    \/ \E form \in AddressForms, arg \in Addrs, written \in BOOLEAN :
          BreakPoint(form, arg, written)

InitDeet == ProxyIdle /\ FarmIdle /\ PmapIdle /\ DeetInit
SpecDeet == InitDeet /\ [][NextDeet]_vars

\* C30: whenever the debugger waits for the next command, an inferior is on
\* record only if its process has not been reported as exited or as killed by
\* a signal.
C30_NoDeadInferiorAtPrompt ==
    (dbg_pc = "prompt" /\ inferior = "Some") => child \notin {"exited", "signaled"}


====
